---------------------------- MODULE Spec2Model ----------------------------
(***************************************************************************)
(* A model of backend/app.py, the Flask API of the credit card dashboard:  *)
(*   - GET /api/monthly-features  (validation, filter, stable sort, page)  *)
(*   - get_model                  (the process-wide cached predictor)      *)
(*   - POST /api/predict          (body validation, model or mock formula) *)
(*   - _validate_feature_importance                                        *)
(*                                                                         *)
(* Python strings are sequences of one-character strings, so that strip,   *)
(* int(), float() and the YYYY-MM regular expression are computed and not  *)
(* assumed.  An optional value (None or a value) is a sequence of length   *)
(* zero or one.                                                            *)
(***************************************************************************)
EXTENDS Integers, Sequences, FiniteSets, TLC

VARIABLES
    qfile,      \* outputs/monthly_features.csv as the request finds it
    qreq,       \* the query string of the last GET /api/monthly-features
    qresp,      \* its response, with the file operations it performed
    _MODEL,                 \* app.py:81, 0 is None, k > 0 the k-th loaded object
    _MODEL_LOAD_ATTEMPTED,  \* app.py:82
    joblib,     \* app.py:15-18, TRUE when the import succeeded
    th,         \* per request thread: position in predict/get_model, locals
    loads,      \* history: the outcome of every joblib.load call, in order
    retLog,     \* history: the value every finished get_model call returned
    nCalls,     \* history: the number of POST /api/predict requests started
    fiRaw,      \* the argument of the last _validate_feature_importance call
    fiResult    \* its result

qvars == <<qfile, qreq, qresp>>
mvars == <<_MODEL, _MODEL_LOAD_ATTEMPTED, joblib, th, loads, retLog, nCalls>>
fvars == <<fiRaw, fiResult>>
vars == <<qfile, qreq, qresp, _MODEL, _MODEL_LOAD_ATTEMPTED, joblib, th, loads,
          retLog, nCalls, fiRaw, fiResult>>

(***************************************************************************)
(* Bounds of the model.                                                    *)
(***************************************************************************)
MaxRows == 3
NThreads == 2
MaxCalls == 3
MaxItems == 2

(***************************************************************************)
(* Optional values and Python strings.                                     *)
(***************************************************************************)
None == <<>>
Some(x) == <<x>>
IsNone(o) == o = <<>>
Get(o) == o[1]

Min(a, b) == IF a <= b THEN a ELSE b
Max(a, b) == IF a >= b THEN a ELSE b

Digits == {"0", "1", "2", "3", "4", "5", "6", "7", "8", "9"}
Whitespace == {" "}

DigitVal(c) ==
    CASE c = "0" -> 0 [] c = "1" -> 1 [] c = "2" -> 2 [] c = "3" -> 3
      [] c = "4" -> 4 [] c = "5" -> 5 [] c = "6" -> 6 [] c = "7" -> 7
      [] c = "8" -> 8 [] c = "9" -> 9

DigitChar(d) == <<"0", "1", "2", "3", "4", "5", "6", "7", "8", "9">>[d + 1]

\* The code point order of the characters the model uses.
Alphabet == <<" ", "+", "-", ".", "0", "1", "2", "3", "4", "5", "6", "7", "8",
              "9", "_", "a", "b", "c", "d", "f", "i", "n", "x">>

Code(c) == CHOOSE i \in 1..Len(Alphabet) : Alphabet[i] = c

\* str.__lt__: lexicographic by code point.
RECURSIVE StrLess(_, _)
StrLess(s, t) ==
    IF t = <<>> THEN FALSE
    ELSE IF s = <<>> THEN TRUE
    ELSE IF Head(s) = Head(t) THEN StrLess(Tail(s), Tail(t))
    ELSE Code(Head(s)) < Code(Head(t))

RECURSIVE LStrip(_)
LStrip(s) ==
    IF s # <<>> /\ Head(s) \in Whitespace THEN LStrip(Tail(s)) ELSE s

RECURSIVE RStrip(_)
RStrip(s) ==
    IF s # <<>> /\ s[Len(s)] \in Whitespace
    THEN RStrip(SubSeq(s, 1, Len(s) - 1)) ELSE s

\* str.strip()
Strip(s) == RStrip(LStrip(s))

AllDigits(s) == \A i \in 1..Len(s) : s[i] \in Digits

\* The value of a string of decimal digits.
RECURSIVE DigitsVal(_)
DigitsVal(s) ==
    IF s = <<>> THEN 0
    ELSE 10 * DigitsVal(SubSeq(s, 1, Len(s) - 1)) + DigitVal(s[Len(s)])

\* str(n) of a natural number.
RECURSIVE NatToStr(_)
NatToStr(n) ==
    IF n < 10 THEN <<DigitChar(n)>>
    ELSE Append(NatToStr(n \div 10), DigitChar(n % 10))

\* str(n) of an int.
IntToStr(n) == IF n < 0 THEN <<"-">> \o NatToStr(-n) ELSE NatToStr(n)

\* int(s) of a str: surrounding whitespace, an optional sign, digits.
\* None stands for the ValueError.
ParseInt(s) ==
    LET t == Strip(s)
        signed == t # <<>> /\ Head(t) \in {"+", "-"}
        body == IF signed THEN Tail(t) ELSE t
    IN  IF body = <<>> \/ ~AllDigits(body) THEN None
        ELSE IF signed /\ Head(t) = "-" THEN Some(-DigitsVal(body))
        ELSE Some(DigitsVal(body))

(***************************************************************************)
(* GET /api/monthly-features                                               *)
(***************************************************************************)
MaxPageSize == 200

\* str.lower() on the column names and candidates the model uses.
Lower(name) ==
    CASE name = "CustomerID" -> "customerid"
      [] name = "CustomerId" -> "customerid"
      [] name = "customerID" -> "customerid"
      [] name = "CUSTOMERID" -> "customerid"
      [] name = "Customer_ID" -> "customer_id"
      [] name = "YearMonth" -> "yearmonth"
      [] name = "MonthlyTotalSpending" -> "monthlytotalspending"
      [] OTHER -> name

CustomerCandidates == <<"CustomerID", "CustomerId", "customer_id", "customerID">>

\* {col.lower(): col for col in columns}: the last column of a lowercase
\* form is the one kept.
NormalizedColumns(columns) ==
    [l \in {Lower(columns[i]) : i \in 1..Len(columns)} |->
        columns[CHOOSE i \in 1..Len(columns) :
                    /\ Lower(columns[i]) = l
                    /\ \A j \in (i + 1)..Len(columns) : Lower(columns[j]) # l]]

\* _identify_column: the column of the first candidate whose lowercase form
\* is a lowercase column name, or None.
IdentifyColumn(columns, candidates) ==
    LET normalized == NormalizedColumns(columns)
        hits == {i \in 1..Len(candidates) :
                    Lower(candidates[i]) \in DOMAIN normalized}
    IN  IF hits = {} THEN None
        ELSE Some(normalized[Lower(candidates[CHOOSE i \in hits :
                                                 \A j \in hits : i <= j])])

\* Mutant: the month is only checked against 12.
IsValidYearMonthUpTo12(value) ==
    /\ Len(value) = 7
    /\ AllDigits(SubSeq(value, 1, 4))
    /\ value[5] = "-"
    /\ AllDigits(SubSeq(value, 6, 7))
    /\ DigitsVal(SubSeq(value, 6, 7)) <= 12

\* _is_valid_year_month: re.fullmatch(r"(\d{4})-(\d{2})"), month in 1..12.
IsValidYearMonth(value) ==
    /\ Len(value) = 7
    /\ AllDigits(SubSeq(value, 1, 4))
    /\ value[5] = "-"
    /\ AllDigits(SubSeq(value, 6, 7))
    /\ LET month == DigitsVal(SubSeq(value, 6, 7))
       IN  1 <= month /\ month <= 12

\* A cell of the table: a str (object column) or an int (int64 column).
StrCell(s) == [t |-> "str", s |-> s, n |-> 0]
IntCell(n) == [t |-> "int", s |-> <<>>, n |-> n]

\* Series.astype(str) on one cell.
AsTypeStr(v) == IF v.t = "str" THEN v.s ELSE IntToStr(v.n)

\* The order sort_values uses inside one column.
CellLess(v, w) == IF v.t = "int" THEN v.n < w.n ELSE StrLess(v.s, w.s)

ColumnIndex(columns, name) == CHOOSE i \in 1..Len(columns) : columns[i] = name

HasColumn(columns, name) == \E i \in 1..Len(columns) : columns[i] = name

\* dataframe[column] for one row.
Cell(columns, row, name) == row[ColumnIndex(columns, name)]

\* by=[customer_column, "YearMonth"], ascending: r sorts at or before s.
KeyLessEq(columns, cc, r, s) ==
    LET rc == Cell(columns, r, cc)
        sc == Cell(columns, s, cc)
        ry == Cell(columns, r, "YearMonth")
        sy == Cell(columns, s, "YearMonth")
    IN  \/ CellLess(rc, sc)
        \/ rc = sc /\ ~CellLess(sy, ry)

\* Mutant: on equal keys the element of the right run first.
RECURSIVE MergeRightFirst(_, _, _, _)
MergeRightFirst(columns, cc, a, b) ==
    IF a = <<>> THEN b
    ELSE IF b = <<>> THEN a
    ELSE IF ~KeyLessEq(columns, cc, Head(b), Head(a))
         THEN <<Head(a)>> \o MergeRightFirst(columns, cc, Tail(a), b)
         ELSE <<Head(b)>> \o MergeRightFirst(columns, cc, a, Tail(b))

\* The merge of mergesort: on equal keys the element of the left run first.
RECURSIVE Merge(_, _, _, _)
Merge(columns, cc, a, b) ==
    IF a = <<>> THEN b
    ELSE IF b = <<>> THEN a
    ELSE IF KeyLessEq(columns, cc, Head(a), Head(b))
         THEN <<Head(a)>> \o Merge(columns, cc, Tail(a), b)
         ELSE <<Head(b)>> \o Merge(columns, cc, a, Tail(b))

\* sort_values(by=[customer_column, "YearMonth"], kind="mergesort")
RECURSIVE SortValues(_, _, _)
SortValues(columns, cc, rows) ==
    IF Len(rows) <= 1 THEN rows
    ELSE LET mid == Len(rows) \div 2
         IN  Merge(columns, cc,
                   SortValues(columns, cc, SubSeq(rows, 1, mid)),
                   SortValues(columns, cc, SubSeq(rows, mid + 1, Len(rows))))

\* filtered[filtered[customer_column].astype(str).str.strip() == customer_id]
RECURSIVE FilterCustomer(_, _, _, _)
FilterCustomer(columns, cc, rows, customer_id) ==
    IF rows = <<>> THEN <<>>
    ELSE LET rest == FilterCustomer(columns, cc, Tail(rows), customer_id)
         IN  IF Strip(AsTypeStr(Cell(columns, Head(rows), cc))) = customer_id
             THEN <<Head(rows)>> \o rest ELSE rest

\* filtered[filtered["YearMonth"].astype(str) == year_month]
RECURSIVE FilterYearMonth(_, _, _)
FilterYearMonth(columns, rows, year_month) ==
    IF rows = <<>> THEN <<>>
    ELSE LET rest == FilterYearMonth(columns, Tail(rows), year_month)
         IN  IF AsTypeStr(Cell(columns, Head(rows), "YearMonth")) = year_month
             THEN <<Head(rows)>> \o rest ELSE rest

\* customer_id.strip() if isinstance(customer_id, str) else None
StripOpt(o) == IF IsNone(o) THEN None ELSE Some(Strip(Get(o)))

\* Truthiness of an optional str: None and "" are false.
Truthy(o) == ~IsNone(o) /\ Get(o) # <<>>

\* Lines 251-265: the two filters, then the sort.
FilteredSorted(columns, cc, rows, customer_id, year_month) ==
    LET f1 == IF Truthy(customer_id)
              THEN FilterCustomer(columns, cc, rows, Get(customer_id))
              ELSE rows
        f2 == IF Truthy(year_month)
              THEN FilterYearMonth(columns, f1, Get(year_month))
              ELSE f1
    IN  SortValues(columns, cc, f2)

\* Mutant: the number of full pages.
TotalPagesFloor(total_rows, page_size) ==
    IF total_rows # 0 THEN total_rows \div page_size ELSE 0

\* (total_rows + page_size - 1) // page_size if total_rows else 0
TotalPages(total_rows, page_size) ==
    IF total_rows # 0 THEN (total_rows + page_size - 1) \div page_size ELSE 0

\* filtered.iloc[start_index:end_index]: a slice clips to the length.
ILoc(rows, start_index, end_index) ==
    SubSeq(rows, Min(start_index, Len(rows)) + 1, Min(end_index, Len(rows)))

ErrorResponse(status, error, touched) ==
    [status |-> status, error |-> error, page |-> 0, page_size |-> 0,
     total_rows |-> 0, total_pages |-> 0, rows |-> <<>>, touched |-> touched]

\* Lines 251-288: the response for a loaded table with both columns.
QueryResponse(columns, cc, table, page_value, page_size_value, customer_id, year_month) ==
    LET filtered == FilteredSorted(columns, cc, table, customer_id, year_month)
        total_rows == Len(filtered)
        start_index == (page_value - 1) * page_size_value
        end_index == start_index + page_size_value
    IN  [status |-> 200, error |-> "", page |-> page_value,
         page_size |-> page_size_value, total_rows |-> total_rows,
         total_pages |-> TotalPages(total_rows, page_size_value),
         rows |-> ILoc(filtered, start_index, end_index),
         touched |-> <<"exists", "read_csv">>]

\* Lines 229-249 and on: the file is tested, read, and its columns resolved.
TableStage(file, page_value, page_size_value, customer_id, year_month) ==
    IF ~file.exists
    THEN ErrorResponse(404, "Monthly features data not found", <<"exists">>)
    ELSE IF file.read = "caught"
    THEN ErrorResponse(500, "Unable to load monthly features data",
                       <<"exists", "read_csv">>)
    ELSE IF file.read = "uncaught"
    THEN ErrorResponse(500, "Internal server error", <<"exists", "read_csv">>)
    ELSE LET customer_column ==
                 IdentifyColumn(file.columns, CustomerCandidates)
         IN  IF IsNone(customer_column)
             THEN ErrorResponse(500, "CustomerID column not available",
                                <<"exists", "read_csv">>)
             ELSE IF ~HasColumn(file.columns, "YearMonth")
             THEN ErrorResponse(500, "YearMonth column not available",
                                <<"exists", "read_csv">>)
             ELSE QueryResponse(file.columns, Get(customer_column), file.rows,
                                page_value, page_size_value, customer_id,
                                year_month)

\* Mutant: the file is looked for before year_month is checked.
FilterStageFileFirst(req, file, page_value, page_size_value) ==
    LET customer_id == StripOpt(req.customer_id)
        year_month == StripOpt(req.year_month)
    IN  IF ~file.exists
        THEN ErrorResponse(404, "Monthly features data not found", <<"exists">>)
        ELSE IF Truthy(year_month) /\ ~IsValidYearMonth(Get(year_month))
        THEN ErrorResponse(400, "year_month must be in YYYY-MM format",
                           <<"exists">>)
        ELSE TableStage(file, page_value, page_size_value, customer_id,
                        year_month)

\* Lines 223-249: strip the filters, check year_month, then go to the file.
FilterStage(req, file, page_value, page_size_value) ==
    LET customer_id == StripOpt(req.customer_id)
        year_month == StripOpt(req.year_month)
    IN  IF Truthy(year_month) /\ ~IsValidYearMonth(Get(year_month))
        THEN ErrorResponse(400, "year_month must be in YYYY-MM format", <<>>)
        ELSE TableStage(file, page_value, page_size_value, customer_id,
                        year_month)

\* request.args.get(key, default)
ArgOr(o, default) == IF IsNone(o) THEN default ELSE Get(o)

\* monthly_features, lines 202-288, as a function of the request and the file.
MonthlyFeatures(req, file) ==
    LET page_raw == ArgOr(req.page, <<"1">>)
        page_size_raw == ArgOr(req.page_size, <<"5", "0">>)
        page_value == ParseInt(page_raw)
        page_size_value == ParseInt(page_size_raw)
    IN  IF IsNone(page_value) \/ IsNone(page_size_value)
        THEN ErrorResponse(400, "page and page_size must be integers", <<>>)
        ELSE IF Get(page_value) <= 0
        THEN ErrorResponse(400, "page must be a positive integer", <<>>)
        ELSE IF Get(page_size_value) <= 0
        THEN ErrorResponse(400, "page_size must be a positive integer", <<>>)
        ELSE IF Get(page_size_value) > MaxPageSize
        THEN ErrorResponse(400, "page_size must not exceed 200", <<>>)
        ELSE FilterStage(req, file, Get(page_value), Get(page_size_value))


(***************************************************************************)
(* The requests and the files the query is exercised on.                   *)
(***************************************************************************)
YM01 == <<"2", "0", "2", "4", "-", "0", "1">>
YM02 == <<"2", "0", "2", "4", "-", "0", "2">>

Request(page, page_size, customer_id, year_month) ==
    [page |-> page, page_size |-> page_size, customer_id |-> customer_id,
     year_month |-> year_month]

YearMonthArgs ==
    {None, Some(<<>>), Some(<<" ">>), Some(YM01), Some(<<" ">> \o YM01 \o <<" ">>),
     Some(<<"2", "0", "2", "4", "-", "1", "3">>),
     Some(<<"2", "0", "2", "4", "-", "0", "0">>),
     Some(<<"2", "4", "-", "0", "1">>),
     Some(<<"a", "b", "c", "d", "-", "0", "1">>),
     Some(<<"2", "0", "2", "4", "_", "0", "1">>),
     Some(<<"2", "0", "2", "4", "-", "0", "1", "1">>)}

\* Every kind of query string: unparsable, out of range and valid values.
AllRequests ==
    {Request(p, ps, c, ym) :
        p \in {None, Some(<<"x">>), Some(<<"0">>), Some(<<"-", "1">>),
               Some(<<"1">>), Some(<<" ", "2", " ">>)},
        ps \in {None, Some(<<"1", ".", "5">>), Some(<<"0">>),
                Some(<<"-", "1">>), Some(<<"1">>), Some(<<"2", "0", "0">>),
                Some(<<"2", "0", "1">>)},
        c \in {None, Some(<<>>), Some(<<" ", "a", " ">>)},
        ym \in YearMonthArgs}

\* Query strings that pass validation.
ValidRequests ==
    {Request(p, ps, c, ym) :
        p \in {None, Some(<<"2">>), Some(<<" ", "3", " ">>)},
        ps \in {Some(<<"1">>), Some(<<"2">>), Some(<<"2", "0", "0">>)},
        c \in {None, Some(<<>>), Some(<<" ", "a", " ">>), Some(<<"1", "0">>)},
        ym \in {None, Some(<<>>), Some(YM01), Some(<<" ">> \o YM02 \o <<" ">>)}}

File(exists, read, columns, rows) ==
    [exists |-> exists, read |-> read, columns |-> columns, rows |-> rows]

AbsentFile == File(FALSE, "ok", <<>>, <<>>)

\* Files that are absent, unreadable, or lack a column, and two that load.
SchemaFiles ==
    {AbsentFile,
     File(TRUE, "caught", <<>>, <<>>),
     File(TRUE, "uncaught", <<>>, <<>>),
     File(TRUE, "ok", <<"MonthlyTotalSpending">>,
          << <<IntCell(100)>>, <<IntCell(101)>> >>),
     File(TRUE, "ok", <<"YearMonth", "MonthlyTotalSpending">>,
          << <<StrCell(YM01), IntCell(100)>> >>),
     File(TRUE, "ok", <<"CUSTOMERID", "yearmonth">>,
          << <<StrCell(<<"a">>), StrCell(YM01)>> >>),
     File(TRUE, "ok", <<"Customer_ID", "YearMonth">>,
          << <<StrCell(<<"a">>), StrCell(YM01)>> >>),
     File(TRUE, "ok", <<"customer_id", "customerID", "YearMonth">>,
          << <<StrCell(<<"b">>), StrCell(<<"a">>), StrCell(YM02)>>,
             <<StrCell(<<"a">>), StrCell(<<"b">>), StrCell(YM01)>> >>)}

\* The (customer, YearMonth) keys of a row: an object column whose values
\* differ by a leading blank, or an int64 column where 7 < 10 but "10" < "7".
StrKeys == {<<StrCell(c), StrCell(y)>> :
               c \in {<<"a">>, <<" ", "a">>}, y \in {YM01, YM02}}
IntKeys == {<<IntCell(c), StrCell(y)>> : c \in {7, 10}, y \in {YM01, YM02}}

\* Every table of up to MaxRows rows over the keys; the third column holds
\* a value that tells the rows apart.
TablesOver(keys) ==
    {[i \in 1..Len(f) |-> <<f[i][1], f[i][2], IntCell(100 + i)>>] :
        f \in UNION {[1..n -> keys] : n \in 0..MaxRows}}

TableFiles ==
    {File(TRUE, "ok", <<"CustomerID", "YearMonth", "MonthlyTotalSpending">>, r) :
        r \in TablesOver(StrKeys)}
    \cup
    {File(TRUE, "ok", <<"customer_id", "YearMonth", "MonthlyTotalSpending">>, r) :
        r \in TablesOver(IntKeys)}

(***************************************************************************)
(* The state machine of the query.                                         *)
(***************************************************************************)
QueryIdle == qfile = AbsentFile /\ qreq = None /\ qresp = None

\* A request is independent of every other: a behaviour is one request, on
\* one state of the file.
QueryInit(files, requests) ==
    /\ qfile \in files
    /\ qreq \in {Some(r) : r \in requests}
    /\ qresp = None

\* One GET /api/monthly-features, from the query string to the response.
MonthlyFeaturesRequest ==
    /\ qreq # None
    /\ qresp = None
    /\ qresp' = Some(MonthlyFeatures(Get(qreq), qfile))
    /\ UNCHANGED <<qfile, qreq, mvars, fvars>>

(***************************************************************************)
(* POST /api/predict: the body and its validation.                         *)
(*                                                                         *)
(* A float is [c, v]: c is "fin" with v the value, or "nan".  A field      *)
(* value is counted in tenths, the formula's sum in units of 10^-5, a      *)
(* prediction in hundredths.  Binary rounding error is not modelled: the   *)
(* inputs used never put a sum half way between two hundredths.            *)
(***************************************************************************)
REQUIRED_PREDICT_FIELDS ==
    <<"AvgTransactionAmount", "NumberOfTransactionsPerMonth",
      "MaxMonthlySpend", "TotalWeekendSpending", "DaysSinceLastTransaction",
      "WeekendSpendingRatio", "Age", "Income", "TotalCASABalance",
      "TotalFixedDepositBalance", "TotalLoanOrgAmount", "TotalLoanEMIAmount",
      "AvgLoanToIncomeRatio", "AvgDebtToIncomeRatio",
      "MonthlyCreditUtilizationRate">>

RequiredSet == {REQUIRED_PREDICT_FIELDS[i] : i \in 1..Len(REQUIRED_PREDICT_FIELDS)}

Fin(v) == [c |-> "fin", v |-> v]
NaN == [c |-> "nan", v |-> 0]

\* JSON values: a number (in tenths), true, an integer beyond the range of
\* a float, the NaN literal json.loads accepts, a string, null, an array.
JNum(v) == [k |-> "num", v |-> v, s |-> <<>>]
JTrue == [k |-> "bool", v |-> 10, s |-> <<>>]
JBig == [k |-> "bigint", v |-> 0, s |-> <<>>]
JNaN == [k |-> "nan", v |-> 0, s |-> <<>>]
JStr(s) == [k |-> "str", v |-> 0, s |-> s]
JNull == [k |-> "null", v |-> 0, s |-> <<>>]
JList == [k |-> "list", v |-> 0, s |-> <<>>]

\* float(s) of a str, in tenths: surrounding whitespace, an optional sign,
\* then "nan" or digits with at most one fractional digit.  None stands for
\* the ValueError.
ParseFloat(s) ==
    LET t == Strip(s)
        signed == t # <<>> /\ Head(t) \in {"+", "-"}
        sign == IF signed /\ Head(t) = "-" THEN -1 ELSE 1
        body == IF signed THEN Tail(t) ELSE t
        dots == {i \in 1..Len(body) : body[i] = "."}
        dot == IF dots = {} THEN Len(body) + 1 ELSE CHOOSE i \in dots : TRUE
        whole == SubSeq(body, 1, dot - 1)
        frac == SubSeq(body, dot + 1, Len(body))
    IN  IF body = <<"n", "a", "n">> THEN Some(NaN)
        ELSE IF \/ Cardinality(dots) > 1
                \/ ~AllDigits(whole) \/ ~AllDigits(frac)
                \/ Len(whole) + Len(frac) = 0
                \/ Len(frac) > 1
        THEN None
        ELSE Some(Fin(sign * (10 * DigitsVal(whole) + DigitsVal(frac))))

\* str(value) of a JSON value that is not a number.
PyStr(value) ==
    CASE value.k = "str" -> value.s
      [] value.k = "null" -> <<"N", "o", "n", "e">>
      [] OTHER -> <<"[", "]">>

\* _coerce_to_float: the float, or the exception that leaves the function.
CoerceToFloat(value) ==
    IF value.k \in {"num", "bool"} THEN [r |-> "ok", f |-> Fin(value.v)]
    ELSE IF value.k = "nan" THEN [r |-> "ok", f |-> NaN]
    ELSE IF value.k = "bigint" THEN [r |-> "OverflowError", f |-> NaN]
    ELSE LET parsed == ParseFloat(PyStr(value))
         IN  IF IsNone(parsed) THEN [r |-> "ValueError", f |-> NaN]
             ELSE [r |-> "ok", f |-> Get(parsed)]

\* A request body: what get_json(silent=True) makes of it.  kind is
\* "notjson", "null", "number", "string", "array" or "object"; names are the
\* required field names a string holds as substrings or an array as
\* elements; fields are the members of an object.
Body(kind, names, fields) == [kind |-> kind, names |-> names, fields |-> fields]

\* field in payload: "TypeError" when the payload has no membership test.
Contains(body, field) ==
    CASE body.kind = "object" ->
             IF field \in DOMAIN body.fields THEN "yes" ELSE "no"
      [] body.kind \in {"string", "array"} ->
             IF field \in body.names THEN "yes" ELSE "no"
      [] OTHER -> "TypeError"

PredictResponse(status, error, field, missing, prediction) ==
    [status |-> status, error |-> error, field |-> field,
     missing |-> missing, prediction |-> prediction]

\* handle_exception, lines 167-170.
InternalServerError ==
    PredictResponse(500, "Internal server error", "", <<>>, None)

\* [field for field in REQUIRED_PREDICT_FIELDS if field not in payload]
MissingFields(body) ==
    SelectSeq(REQUIRED_PREDICT_FIELDS, LAMBDA f : Contains(body, f) = "no")

\* The first required field whose conversion raises, or 0.
FirstRaising(body) ==
    LET bad == {i \in 1..Len(REQUIRED_PREDICT_FIELDS) :
                   CoerceToFloat(body.fields[REQUIRED_PREDICT_FIELDS[i]]).r # "ok"}
    IN  IF bad = {} THEN 0 ELSE CHOOSE i \in bad : \A j \in bad : i <= j

\* Lines 292-311: the response that ends the request, or the numeric payload.
ValidatePredict(body) ==
    IF body.kind \in {"notjson", "null"}
    THEN [resp |-> Some(PredictResponse(400, "Request body must be JSON", "",
                                        <<>>, None)),
          payload |-> None]
    ELSE IF Contains(body, REQUIRED_PREDICT_FIELDS[1]) = "TypeError"
    THEN [resp |-> Some(InternalServerError), payload |-> None]
    ELSE IF MissingFields(body) # <<>>
    THEN [resp |-> Some(PredictResponse(400, "missing fields", "",
                                        MissingFields(body), None)),
          payload |-> None]
    ELSE IF body.kind # "object"
    THEN [resp |-> Some(InternalServerError), payload |-> None]
    ELSE LET i == FirstRaising(body)
         IN  IF i = 0
             THEN [resp |-> None,
                   payload |-> Some([f \in RequiredSet |->
                                        CoerceToFloat(body.fields[f]).f])]
             ELSE IF CoerceToFloat(body.fields[REQUIRED_PREDICT_FIELDS[i]]).r
                         = "ValueError"
             THEN [resp |-> Some(PredictResponse(400, "must be numeric",
                                     REQUIRED_PREDICT_FIELDS[i], <<>>, None)),
                   payload |-> None]
             ELSE [resp |-> Some(InternalServerError), payload |-> None]

\* round(x, ndigits) on an exact value: x counted in units of which d make
\* one unit of the result; a tie goes to the even neighbour.
RoundHalfEven(x, d) ==
    LET q == x \div d
        r == x % d
    IN  IF 2 * r < d THEN q
        ELSE IF 2 * r > d THEN q + 1
        ELSE IF q % 2 = 0 THEN q ELSE q + 1

\* Mutant: the sum is not clamped at 0.
MockPredictionUnclamped(features) ==
    LET n == features["NumberOfTransactionsPerMonth"]
        a == features["AvgTransactionAmount"]
        w == features["WeekendSpendingRatio"]
        m == features["MaxMonthlySpend"]
        t == features["TotalWeekendSpending"]
    IN  IF \E x \in {n, a, w, m, t} : x.c = "nan" THEN NaN
        ELSE Fin(RoundHalfEven(3 * n.v * a.v * (100 + w.v) + 2000 * m.v
                                   + 1000 * t.v, 1000))

\* _mock_prediction, lines 425-437.  With fields in tenths the three
\* components are in units of 10^-5:
\*   txn = n/10 * a/10 * (1 + w/10 * 0.1) * 0.3 = 3 n a (100 + w) / 10^5.
MockPrediction(features) ==
    LET n == features["NumberOfTransactionsPerMonth"]
        a == features["AvgTransactionAmount"]
        w == features["WeekendSpendingRatio"]
        m == features["MaxMonthlySpend"]
        t == features["TotalWeekendSpending"]
    IN  IF \E x \in {n, a, w, m, t} : x.c = "nan" THEN NaN
        ELSE LET txn_component == 3 * n.v * a.v * (100 + w.v)
                 peak_component == 2000 * m.v
                 weekend_component == 1000 * t.v
                 prediction == txn_component + peak_component
                                   + weekend_component
             IN  Fin(RoundHalfEven(Max(prediction, 0), 1000))

(***************************************************************************)
(* The request bodies predict is exercised on.                             *)
(***************************************************************************)
\* An object with all 15 fields as numbers: the five the formula reads, and
\* one value for the other ten.
NumericFields(n, a, w, m, t, other) ==
    [f \in RequiredSet |->
        JNum(CASE f = "NumberOfTransactionsPerMonth" -> n
               [] f = "AvgTransactionAmount" -> a
               [] f = "WeekendSpendingRatio" -> w
               [] f = "MaxMonthlySpend" -> m
               [] f = "TotalWeekendSpending" -> t
               [] OTHER -> other)]

\* 10 transactions of 100.0, ratio 0.2, peak 500.0, weekend 200.0.
BaseFields == NumericFields(100, 1000, 2, 5000, 2000, 10)

With(fields, f, value) == [g \in DOMAIN fields \cup {f} |->
                              IF g = f THEN value ELSE fields[g]]

Without(fields, names) == [g \in DOMAIN fields \ names |-> fields[g]]

Object(fields) == Body("object", {}, fields)

FirstField == REQUIRED_PREDICT_FIELDS[1]
LastField == REQUIRED_PREDICT_FIELDS[Len(REQUIRED_PREDICT_FIELDS)]

NumericBodies ==
    {Object(NumericFields(n, a, w, m, t, other)) :
        n \in {-10, 100}, a \in {1000, 5}, w \in {2, -3},
        m \in {5000, -20000}, t \in {2000}, other \in {10, -250}}

OddValues ==
    {JStr(<<"1", "2", "3", ".", "4">>), JStr(<<" ", "-", "7", " ">>),
     JStr(<<"a", "b", "c">>), JStr(<<>>), JStr(<<"n", "a", "n">>),
     JTrue, JBig, JNaN, JNull, JList}

OddBodies ==
    {Object(With(BaseFields, f, v)) : f \in {FirstField, LastField},
                                      v \in OddValues}
    \cup
    {Object(With(With(BaseFields, FirstField, JStr(<<"a", "b", "c">>)),
                 LastField, JBig)),
     Object(With(With(BaseFields, FirstField, JBig),
                 LastField, JStr(<<"a", "b", "c">>))),
     Object(With(BaseFields, "Extra", JStr(<<"a", "b", "c">>)))}

MissingBodies ==
    {Object(Without(BaseFields, {f})) : f \in RequiredSet}
    \cup
    {Object(Without(BaseFields, {FirstField, LastField})),
     Object(Without(With(BaseFields, FirstField, JNull), {LastField})),
     Object(<<>>)}

OtherBodies ==
    {Body("notjson", {}, <<>>), Body("null", {}, <<>>),
     Body("number", {}, <<>>), Body("string", {}, <<>>),
     Body("array", {}, <<>>), Body("array", {"Age"}, <<>>),
     Body("array", RequiredSet, <<>>)}

AllBodies == NumericBodies \cup OddBodies \cup MissingBodies \cup OtherBodies

\* The bodies of the requests that race for the model.
RaceBodies == {Object(BaseFields), Body("notjson", {}, <<>>)}

\* What model.predict(input_frame)[0] gives, in thousandths, when it returns.
ModelOutputs == {123456}

(***************************************************************************)
(* The request threads: predict (lines 290-324) around get_model           *)
(* (lines 124-148), one action per step that reads or writes the globals.  *)
(***************************************************************************)
Threads == 1..NThreads

\* The locals of a thread: pc is its position; body the request body; payload
\* numeric_payload; model the value get_model returned to line 313; loaded
\* the object joblib.load returned; called and invoked whether this request
\* has called get_model and model.predict; raised whether model.predict
\* raised; resp the response it sent last.
IdleThread ==
    [pc |-> "idle", body |-> None, payload |-> None, model |-> 0,
     loaded |-> 0, called |-> FALSE, invoked |-> FALSE, raised |-> FALSE,
     resp |-> None]

LoadPath == {"set_attempted", "locate", "load", "store", "except", "return"}

ModelInit ==
    /\ _MODEL = 0
    /\ _MODEL_LOAD_ATTEMPTED = FALSE
    /\ joblib \in BOOLEAN
    /\ th = [t \in Threads |-> IdleThread]
    /\ loads = <<>>
    /\ retLog = <<>>
    /\ nCalls = 0

ModelIdle ==
    /\ _MODEL = 0
    /\ _MODEL_LOAD_ATTEMPTED = FALSE
    /\ joblib = TRUE
    /\ th = [t \in Threads |-> IdleThread]
    /\ loads = <<>>
    /\ retLog = <<>>
    /\ nCalls = 0

\* Lines 292-311: a request arrives and its body is validated.
PredictStart(t, bodies) ==
    /\ th[t].pc = "idle"
    /\ nCalls < MaxCalls
    /\ \E body \in bodies :
           LET v == ValidatePredict(body)
           IN  th' = [th EXCEPT ![t] =
                        [IdleThread EXCEPT
                            !.body = Some(body),
                            !.resp = v.resp,
                            !.payload = v.payload,
                            !.pc = IF IsNone(v.resp) THEN "get_model"
                                   ELSE "idle"]]
    /\ nCalls' = nCalls + 1
    /\ UNCHANGED <<_MODEL, _MODEL_LOAD_ATTEMPTED, joblib, loads, retLog,
                   qvars, fvars>>

\* Mutant: the cached value is tested, not the flag.
GetModelCheckByValue(t) ==
    /\ th[t].pc = "get_model"
    /\ IF _MODEL # 0
       THEN /\ th' = [th EXCEPT ![t].pc = "predict", ![t].model = _MODEL,
                                ![t].called = TRUE]
            /\ retLog' = Append(retLog, _MODEL)
       ELSE /\ th' = [th EXCEPT ![t].pc = "set_attempted",
                                ![t].called = TRUE]
            /\ UNCHANGED retLog
    /\ UNCHANGED <<_MODEL, _MODEL_LOAD_ATTEMPTED, joblib, loads, nCalls,
                   qvars, fvars>>

\* Lines 128-129: if _MODEL_LOAD_ATTEMPTED: return _MODEL
GetModelCheck(t) ==
    /\ th[t].pc = "get_model"
    /\ IF _MODEL_LOAD_ATTEMPTED
       THEN /\ th' = [th EXCEPT ![t].pc = "predict", ![t].model = _MODEL,
                                ![t].called = TRUE]
            /\ retLog' = Append(retLog, _MODEL)
       ELSE /\ th' = [th EXCEPT ![t].pc = "set_attempted",
                                ![t].called = TRUE]
            /\ UNCHANGED retLog
    /\ UNCHANGED <<_MODEL, _MODEL_LOAD_ATTEMPTED, joblib, loads, nCalls,
                   qvars, fvars>>

\* Mutant: the flag is never set.
GetModelSetAttemptedForgotten(t) ==
    /\ th[t].pc = "set_attempted"
    /\ th' = [th EXCEPT ![t].pc = "locate"]
    /\ UNCHANGED <<_MODEL, _MODEL_LOAD_ATTEMPTED, joblib, loads, retLog,
                   nCalls, qvars, fvars>>

\* Line 131: _MODEL_LOAD_ATTEMPTED = True
GetModelSetAttempted(t) ==
    /\ th[t].pc = "set_attempted"
    /\ _MODEL_LOAD_ATTEMPTED' = TRUE
    /\ th' = [th EXCEPT ![t].pc = "locate"]
    /\ UNCHANGED <<_MODEL, joblib, loads, retLog, nCalls, qvars, fvars>>

\* Lines 133-139: return None without joblib or without the model file.
GetModelLocate(t) ==
    /\ th[t].pc = "locate"
    /\ \E file_exists \in BOOLEAN :
           IF joblib /\ file_exists
           THEN /\ th' = [th EXCEPT ![t].pc = "load"]
                /\ UNCHANGED retLog
           ELSE /\ th' = [th EXCEPT ![t].pc = "predict", ![t].model = 0]
                /\ retLog' = Append(retLog, 0)
    /\ UNCHANGED <<_MODEL, _MODEL_LOAD_ATTEMPTED, joblib, loads, nCalls,
                   qvars, fvars>>

\* Line 142, the call: joblib.load returns a new object or raises.
GetModelLoad(t) ==
    /\ th[t].pc = "load"
    /\ \E ok \in BOOLEAN :
           /\ loads' = Append(loads, ok)
           /\ th' = [th EXCEPT
                        ![t].pc = IF ok THEN "store" ELSE "except",
                        ![t].loaded = IF ok THEN Len(loads) + 1 ELSE 0]
    /\ UNCHANGED <<_MODEL, _MODEL_LOAD_ATTEMPTED, joblib, retLog, nCalls,
                   qvars, fvars>>

\* Line 142, the assignment: _MODEL = <the loaded object>
GetModelStore(t) ==
    /\ th[t].pc = "store"
    /\ _MODEL' = th[t].loaded
    /\ th' = [th EXCEPT ![t].pc = "return"]
    /\ UNCHANGED <<_MODEL_LOAD_ATTEMPTED, joblib, loads, retLog, nCalls,
                   qvars, fvars>>

\* Lines 144-146: except Exception: _MODEL = None
GetModelExcept(t) ==
    /\ th[t].pc = "except"
    /\ _MODEL' = 0
    /\ th' = [th EXCEPT ![t].pc = "return"]
    /\ UNCHANGED <<_MODEL_LOAD_ATTEMPTED, joblib, loads, retLog, nCalls,
                   qvars, fvars>>

\* Line 148: return _MODEL
GetModelReturn(t) ==
    /\ th[t].pc = "return"
    /\ th' = [th EXCEPT ![t].pc = "predict", ![t].model = _MODEL]
    /\ retLog' = Append(retLog, _MODEL)
    /\ UNCHANGED <<_MODEL, _MODEL_LOAD_ATTEMPTED, joblib, loads, nCalls,
                   qvars, fvars>>

\* Lines 320-324: the except clause falls through to the mock formula.
PredictFallback(payload) ==
    PredictResponse(200, "", "", <<>>, Some(MockPrediction(payload)))

\* Lines 316-319: the model's value, rounded to two decimals.
PredictFromModel(output) ==
    PredictResponse(200, "", "", <<>>, Some(Fin(RoundHalfEven(output, 10))))

\* Lines 314-324: the model's prediction, or the mock formula when there is
\* no model or the model raises.
PredictRespond(t) ==
    /\ th[t].pc = "predict"
    /\ IF th[t].model # 0
       THEN \E raises \in BOOLEAN : \E output \in ModelOutputs :
               th' = [th EXCEPT
                        ![t].pc = "idle",
                        ![t].invoked = TRUE,
                        ![t].raised = raises,
                        ![t].resp = IF raises
                                    THEN Some(PredictFallback(Get(th[t].payload)))
                                    ELSE Some(PredictFromModel(output))]
       ELSE th' = [th EXCEPT
                     ![t].pc = "idle",
                     ![t].resp = Some(PredictFallback(Get(th[t].payload)))]
    /\ UNCHANGED <<_MODEL, _MODEL_LOAD_ATTEMPTED, joblib, loads, retLog,
                   nCalls, qvars, fvars>>

\* A step of thread t after its request has arrived.
Step(t) ==
    \/ GetModelCheck(t)
    \/ GetModelSetAttempted(t)
    \/ GetModelLocate(t)
    \/ GetModelLoad(t)
    \/ GetModelStore(t)
    \/ GetModelExcept(t)
    \/ GetModelReturn(t)
    \/ PredictRespond(t)

(***************************************************************************)
(* _validate_feature_importance, lines 340-366.                            *)
(***************************************************************************)
\* An element of the input: a dict with its "name" and "importance" members
\* (None when the key is absent or null), or something that is not a dict.
DictItem(name, importance) ==
    [k |-> "dict", name |-> name, importance |-> importance]
OtherItem == [k |-> "other", name |-> None, importance |-> None]

\* The input: kind is "number", "null", "string", "object" or "array";
\* items is what iterating over it yields.
Raw(kind, items) == [kind |-> kind, items |-> items]

\* isinstance(raw_features, Iterable)
IsIterable(raw) == raw.kind \in {"string", "object", "array"}

\* float(importance): the float, or the exception raised.
FloatOf(o) ==
    IF IsNone(o) THEN [r |-> "TypeError", f |-> NaN]
    ELSE LET value == Get(o)
         IN  CASE value.k \in {"num", "bool"} -> [r |-> "ok", f |-> Fin(value.v)]
               [] value.k = "nan" -> [r |-> "ok", f |-> NaN]
               [] value.k = "bigint" -> [r |-> "OverflowError", f |-> NaN]
               [] value.k = "str" ->
                      IF IsNone(ParseFloat(value.s))
                      THEN [r |-> "ValueError", f |-> NaN]
                      ELSE [r |-> "ok", f |-> Get(ParseFloat(value.s))]
               [] OTHER -> [r |-> "TypeError", f |-> NaN]

\* Lines 347-361 for one element: "ok", "reject" (return None) or "raise"
\* (an exception the except clause does not name).
ItemOutcome(item) ==
    IF item.k # "dict" THEN "reject"
    ELSE IF IsNone(item.name) \/ Get(item.name).k # "str" THEN "reject"
    ELSE IF FloatOf(item.importance).r \in {"TypeError", "ValueError"}
    THEN "reject"
    ELSE IF FloatOf(item.importance).r = "ok" THEN "ok"
    ELSE "raise"

ItemEntry(item) ==
    [name |-> Get(item.name).s, importance |-> FloatOf(item.importance).f]

FIResult(r, list) == [r |-> r, list |-> list]

\* The whole function: r is "none" (None returned), "list" or "raise".
ValidateFeatureImportance(raw) ==
    IF ~IsIterable(raw) THEN FIResult("none", <<>>)
    ELSE LET items == raw.items
             bad == {i \in 1..Len(items) : ItemOutcome(items[i]) # "ok"}
             first == CHOOSE i \in bad : \A j \in bad : i <= j
         IN  IF bad # {}
             THEN IF ItemOutcome(items[first]) = "raise"
                  THEN FIResult("raise", <<>>)
                  ELSE FIResult("none", <<>>)
             ELSE IF items = <<>> THEN FIResult("none", <<>>)
             ELSE FIResult("list", [i \in 1..Len(items) |-> ItemEntry(items[i])])

ItemNames == {None, Some(JStr(<<"x">>)), Some(JStr(<<>>)), Some(JNum(5))}

ItemImportances ==
    {None, Some(JNum(5)), Some(JStr(<<"0", ".", "5">>)),
     Some(JStr(<<"a", "b", "c">>)), Some(JStr(<<"n", "a", "n">>)), Some(JNaN),
     Some(JList), Some(JBig)}

Items == {DictItem(n, i) : n \in ItemNames, i \in ItemImportances}
             \cup {OtherItem}

\* Arrays of up to MaxItems elements, and the inputs that are not arrays: a
\* number, null, a string (its characters), an object (its keys).
Raws ==
    {Raw("array", a) : a \in UNION {[1..n -> Items] : n \in 0..MaxItems}}
    \cup
    {Raw("number", <<>>), Raw("null", <<>>), Raw("string", <<>>),
     Raw("string", <<OtherItem, OtherItem>>), Raw("object", <<>>),
     Raw("object", <<OtherItem>>)}

FeaturesIdle == fiRaw = None /\ fiResult = None

FeaturesInit == fiRaw \in {Some(r) : r \in Raws} /\ fiResult = None

\* One call of _validate_feature_importance.
ValidateFeatures ==
    /\ fiRaw # None
    /\ fiResult = None
    /\ fiResult' = Some(ValidateFeatureImportance(Get(fiRaw)))
    /\ UNCHANGED <<fiRaw, qvars, mvars>>

(***************************************************************************)
(* Specifications.                                                         *)
(***************************************************************************)
AllIdle == \A t \in Threads : th[t].pc = "idle"

\* Requests to POST /api/predict on concurrent threads.
Init == QueryIdle /\ ModelInit /\ FeaturesIdle

Next == \E t \in Threads : PredictStart(t, RaceBodies) \/ Step(t)

Spec == Init /\ [][Next]_vars

\* The same requests, one at a time.
PredictStartAlone(t) == AllIdle /\ PredictStart(t, RaceBodies)

NextSeq == \E t \in Threads : PredictStartAlone(t) \/ Step(t)

SpecSeq == Init /\ [][NextSeq]_vars

\* Every kind of body, one request at a time.
NextPredict == PredictStart(1, AllBodies) \/ Step(1)

SpecPredict == Init /\ [][NextPredict]_vars

\* GET /api/monthly-features with every kind of query string.
InitValidation == QueryInit(SchemaFiles, AllRequests) /\ ModelIdle /\ FeaturesIdle

NextValidation == MonthlyFeaturesRequest

SpecValidation == InitValidation /\ [][NextValidation]_vars

\* GET /api/monthly-features with valid query strings on every small table.
InitQuery == QueryInit(TableFiles, ValidRequests) /\ ModelIdle /\ FeaturesIdle

NextQuery == MonthlyFeaturesRequest

SpecQuery == InitQuery /\ [][NextQuery]_vars

\* _validate_feature_importance on every small input.
InitFeatures == QueryIdle /\ ModelIdle /\ FeaturesInit

NextFeatures == ValidateFeatures

SpecFeatures == InitFeatures /\ [][NextFeatures]_vars

(***************************************************************************)
(* GET /api/monthly-features: the order of the checks (C1) and the         *)
(* year_month format (C4), under SpecValidation.                           *)
(***************************************************************************)
Responded == qresp # None
Req == Get(qreq)
Resp == Get(qresp)

PageArg == ParseInt(ArgOr(Req.page, <<"1">>))
PageSizeArg == ParseInt(ArgOr(Req.page_size, <<"5", "0">>))

\* The checks of the claim, each decided on its own.
Check1Fails == IsNone(PageArg) \/ IsNone(PageSizeArg)
Check2Fails == ~IsNone(PageArg) /\ Get(PageArg) <= 0
Check3Fails == ~IsNone(PageSizeArg)
                   /\ (Get(PageSizeArg) <= 0 \/ Get(PageSizeArg) > 200)
Check4Fails == /\ Truthy(StripOpt(Req.year_month))
               /\ ~IsValidYearMonth(Get(StripOpt(Req.year_month)))
FileLoads == qfile.exists /\ qfile.read = "ok"
Check5Fails == ~qfile.exists
Check6Fails == FileLoads /\ \A i \in 1..Len(qfile.columns) :
                   Lower(qfile.columns[i]) \notin {"customerid", "customer_id"}
Check7Fails == FileLoads /\ \A i \in 1..Len(qfile.columns) :
                   qfile.columns[i] # "YearMonth"

FailingChecks ==
    {k \in 1..7 : CASE k = 1 -> Check1Fails [] k = 2 -> Check2Fails
                    [] k = 3 -> Check3Fails [] k = 4 -> Check4Fails
                    [] k = 5 -> Check5Fails [] k = 6 -> Check6Fails
                    [] k = 7 -> Check7Fails}

\* The check a response reports: 0 for the 200, 8 for a file that exists and
\* cannot be read (the 500 of lines 232-236, or of handle_exception).
ReportedCheck ==
    CASE Resp.status = 200 -> 0
      [] Resp.error = "page and page_size must be integers" -> 1
      [] Resp.error = "page must be a positive integer" -> 2
      [] Resp.error = "page_size must be a positive integer" -> 3
      [] Resp.error = "page_size must not exceed 200" -> 3
      [] Resp.error = "year_month must be in YYYY-MM format" -> 4
      [] Resp.status = 404 -> 5
      [] Resp.error = "CustomerID column not available" -> 6
      [] Resp.error = "YearMonth column not available" -> 7
      [] OTHER -> 8

Least(S) == CHOOSE k \in S : \A j \in S : k <= j

\* C1: the response reports the first failing check in the order paging
\* integers, page > 0, 0 < page_size <= 200, year_month format, file present,
\* customer column, YearMonth column, whatever later checks fail too (a file
\* that exists and cannot be read is reported only after checks 1-4); when
\* one of checks 1-4 fails the file is neither tested nor read, and the
\* statuses are 400 for checks 1-4, 404 for the absent file, 500 after it.
C1_ValidationOrder ==
    Responded =>
        /\ FailingChecks \cap (1..4) # {} =>
               /\ ReportedCheck = Least(FailingChecks)
               /\ Resp.status = 400
               /\ Resp.touched = <<>>
        /\ FailingChecks \cap (1..4) = {} =>
               /\ Resp.touched # <<>>
               /\ Resp.touched[1] = "exists"
               /\ FailingChecks # {} =>
                      /\ ReportedCheck = Least(FailingChecks)
                      /\ Resp.status = IF ReportedCheck = 5 THEN 404 ELSE 500
               /\ (FailingChecks = {} /\ FileLoads) => ReportedCheck = 0
               /\ (qfile.exists /\ ~FileLoads) =>
                      ReportedCheck = 8 /\ Resp.status = 500
        /\ (Resp.status = 400) = (FailingChecks \cap (1..4) # {})

\* C1's case: the year_month is malformed and the file is absent, and the
\* response is the 400 of the year_month check, the file untouched.
C1_Witness ==
    /\ Responded
    /\ {4, 5} \subseteq FailingChecks
    /\ ReportedCheck = 4
    /\ Resp.touched = <<>>

\* Four digits, a hyphen, two digits, the month in 1..12.
WellFormedYearMonth(s) ==
    /\ Len(s) = 7
    /\ \A i \in {1, 2, 3, 4, 6, 7} : s[i] \in Digits
    /\ s[5] = "-"
    /\ 10 * DigitVal(s[6]) + DigitVal(s[7]) \in 1..12

PagingValid == ~Check1Fails /\ ~Check2Fails /\ ~Check3Fails

YearMonthRejected ==
    Resp.status = 400 /\ Resp.error = "year_month must be in YYYY-MM format"

\* C4, as stated: with valid paging and year_month supplied, the request is
\* rejected with InvalidYearMonth unless the supplied string itself is
\* YYYY-MM with the month in 1..12.
C4_Original ==
    (Responded /\ PagingValid /\ ~IsNone(Req.year_month)) =>
        (YearMonthRejected <=> ~WellFormedYearMonth(Get(Req.year_month)))

\* C4, amended: with valid paging and year_month supplied, the request is
\* rejected with InvalidYearMonth exactly when the supplied string, with its
\* leading and trailing whitespace removed, is not empty and is not YYYY-MM
\* with the month in 1..12; "2024-13", "24-01" and "abcd-01" are rejected
\* and "2024-01" is accepted.
C4_YearMonthTrimmed ==
    (Responded /\ PagingValid /\ ~IsNone(Req.year_month)) =>
        LET trimmed == Strip(Get(Req.year_month))
        IN  /\ YearMonthRejected <=>
                   (trimmed # <<>> /\ ~WellFormedYearMonth(trimmed))
            /\ Get(Req.year_month) \in
                   {<<"2", "0", "2", "4", "-", "1", "3">>,
                    <<"2", "4", "-", "0", "1">>,
                    <<"a", "b", "c", "d", "-", "0", "1">>} => YearMonthRejected
            /\ Get(Req.year_month) = YM01 => ~YearMonthRejected

\* C4's case: a year_month with blanks around a valid month is not rejected.
C4_Witness ==
    /\ Responded
    /\ PagingValid
    /\ Req.year_month = Some(<<" ">> \o YM01 \o <<" ">>)
    /\ ~YearMonthRejected
    /\ Resp.status = 200

(***************************************************************************)
(* GET /api/monthly-features: pagination (C2) and the filtered, sorted     *)
(* sequence (C3), under SpecQuery.                                         *)
(***************************************************************************)
CustomerColumn == Get(IdentifyColumn(qfile.columns, CustomerCandidates))
CustomerOf(row) == Cell(qfile.columns, row, CustomerColumn)
YearMonthOf(row) == Cell(qfile.columns, row, "YearMonth")

\* The sequence the request paginates, lines 251-265.
Paginated ==
    FilteredSorted(qfile.columns, CustomerColumn, qfile.rows,
                   StripOpt(Req.customer_id), StripOpt(Req.year_month))

\* A row satisfies every supplied filter, as C3 states it.
MatchesSupplied(row) ==
    /\ IsNone(Req.customer_id)
           \/ Strip(Get(Req.customer_id)) = Strip(AsTypeStr(CustomerOf(row)))
    /\ IsNone(Req.year_month)
           \/ Get(Req.year_month) = AsTypeStr(YearMonthOf(row))

\* A row satisfies every filter that is not blank: a filter that is omitted,
\* or empty once trimmed, matches every row, and year_month is compared
\* trimmed.
MatchesNonBlank(row) ==
    /\ \/ IsNone(Req.customer_id)
       \/ Strip(Get(Req.customer_id)) = <<>>
       \/ Strip(Get(Req.customer_id)) = Strip(AsTypeStr(CustomerOf(row)))
    /\ \/ IsNone(Req.year_month)
       \/ Strip(Get(Req.year_month)) = <<>>
       \/ Strip(Get(Req.year_month)) = AsTypeStr(YearMonthOf(row))

\* The position of a row in the table (the rows of a table here differ).
Position(row) == CHOOSE j \in 1..Len(qfile.rows) : qfile.rows[j] = row

KeyBefore(r, s) ==
    \/ CellLess(CustomerOf(r), CustomerOf(s))
    \/ CustomerOf(r) = CustomerOf(s) /\ CellLess(YearMonthOf(r), YearMonthOf(s))

SameKey(r, s) ==
    CustomerOf(r) = CustomerOf(s) /\ YearMonthOf(r) = YearMonthOf(s)

\* seq holds exactly the rows of the table that Matches, each once, in
\* ascending (customer, YearMonth) order, equal keys in table order.
IsStableArrangement(seq, Matches(_)) ==
    /\ \A i \in 1..Len(seq) :
           \E j \in 1..Len(qfile.rows) :
               qfile.rows[j] = seq[i] /\ Matches(qfile.rows[j])
    /\ \A j \in 1..Len(qfile.rows) :
           Matches(qfile.rows[j]) => \E i \in 1..Len(seq) : seq[i] = qfile.rows[j]
    /\ \A i, j \in 1..Len(seq) : i < j =>
           /\ seq[i] # seq[j]
           /\ ~KeyBefore(seq[j], seq[i])
           /\ SameKey(seq[i], seq[j]) => Position(seq[i]) < Position(seq[j])

\* ceil(a / b) for a >= 0, b > 0.
Ceil(a, b) == CHOOSE n \in 0..a : n * b >= a /\ (n = 0 \/ (n - 1) * b < a)

\* C2: for a request that passes validation, on every table, total_rows is
\* the number of filtered rows, total_pages is ceil(total_rows / page_size)
\* (0 for no rows), the number of rows returned is
\* min(page_size, max(0, total_rows - (page-1)*page_size)), the rows are the
\* elements at positions [(page-1)*page_size, page*page_size) of the
\* filtered and sorted sequence, and a page beyond the last gives a 200
\* with no rows.
C2_Pagination ==
    Responded =>
        LET page == Get(PageArg)
            page_size == Get(PageSizeArg)
            total == Cardinality({j \in 1..Len(qfile.rows) :
                                     MatchesNonBlank(qfile.rows[j])})
            start == (page - 1) * page_size
        IN  /\ page >= 1 /\ page_size >= 1 /\ page_size <= 200
            /\ Resp.status = 200
            /\ Resp.page = page /\ Resp.page_size = page_size
            /\ Resp.total_rows = total
            /\ Resp.total_pages = Ceil(total, page_size)
            /\ total = 0 => Resp.total_pages = 0
            /\ Len(Resp.rows) = Min(page_size, Max(0, total - start))
            /\ \A k \in 1..Len(Resp.rows) : Resp.rows[k] = Paginated[start + k]
            /\ start >= total => Resp.rows = <<>>

\* C2's case: three filtered rows, page 2 of size 2: one row, two pages.
C2_Witness ==
    /\ Responded
    /\ Resp.status = 200
    /\ Resp.total_rows = 3 /\ Resp.page = 2 /\ Resp.page_size = 2
    /\ Len(Resp.rows) = 1 /\ Resp.total_pages = 2
    /\ Resp.rows[1] = Paginated[3]

\* C3, as stated: the paginated sequence is the rows that satisfy every
\* supplied filter (customer_id trimmed on both sides, year_month equal to
\* the stringified value), in ascending (customer, YearMonth) order, rows
\* of equal keys in table order, none dropped, duplicated or added.
C3_Original == Responded => IsStableArrangement(Paginated, MatchesSupplied)

\* C3, amended: the paginated sequence is the rows that satisfy every
\* filter that is not blank (a filter omitted, or empty once trimmed,
\* matches every row; customer_id: trimmed input equals the trimmed
\* stringified value; year_month: trimmed input equals the stringified
\* value), in ascending (customer, YearMonth) order, rows of equal keys in
\* table order, none dropped, duplicated or added.
C3_FilteredStableSorted ==
    Responded => IsStableArrangement(Paginated, MatchesNonBlank)

\* C3's case: a customer_id filter with blanks around it keeps two rows of
\* one key out of the three of the table, in table order.
C3_Witness ==
    /\ Responded
    /\ Req.customer_id = Some(<<" ", "a", " ">>)
    /\ Len(qfile.rows) = 3
    /\ Len(Paginated) = 2
    /\ SameKey(Paginated[1], Paginated[2])
    /\ Position(Paginated[1]) < Position(Paginated[2])

(***************************************************************************)
(* get_model: sequential calls (C5, under SpecSeq) and concurrent calls    *)
(* (C6 and C10, under Spec).                                               *)
(***************************************************************************)
\* Every call has returned, and at least one was made.
Quiescent == AllIdle /\ retLog # <<>>

NoneLoading == \A t \in Threads : th[t].pc \notin LoadPath

\* C5: over a sequence of get_model calls, joblib.load is performed at most
\* once; between calls the cache is not-yet-attempted until the first call
\* and from then on holds what that call returned, so that every later call
\* returns the same value (absent after an attempt that ended absent, the
\* same predictor after a successful load) without loading again.
C5_LoadedAtMostOnce ==
    /\ Len(loads) <= 1
    /\ \A i \in 1..Len(retLog) : retLog[i] = retLog[1]
    /\ \A i \in 1..Len(retLog) : retLog[i] # 0 => loads = <<TRUE>>
    /\ (AllIdle /\ retLog = <<>>) => (~_MODEL_LOAD_ATTEMPTED /\ _MODEL = 0)
    /\ Quiescent => (_MODEL_LOAD_ATTEMPTED /\ _MODEL = retLog[1])

\* C5's case: the first call's load raised, and two later calls returned
\* absent with no further load.
C5_Witness ==
    /\ AllIdle
    /\ Len(retLog) = 3
    /\ loads = <<FALSE>>
    /\ retLog[3] = 0

\* C6: under every interleaving of concurrent get_model calls the cache is
\* not corrupted.  Once all calls have returned the flag is set and the
\* cached value is consistent with the loads performed: a predictor only if
\* it is the object of a load that succeeded, the predictor if every load
\* succeeded, absent if every load failed or none was made.  No later call
\* changes it: with the flag set no call enters the load path, and with no
\* call on the load path _MODEL keeps its value.
C6_CacheNotCorrupted ==
    /\ [](Quiescent =>
            /\ _MODEL_LOAD_ATTEMPTED
            /\ _MODEL # 0 => (_MODEL \in 1..Len(loads) /\ loads[_MODEL])
            /\ (loads # <<>> /\ \A i \in 1..Len(loads) : loads[i]) => _MODEL # 0)
    /\ [][_MODEL_LOAD_ATTEMPTED =>
            /\ _MODEL_LOAD_ATTEMPTED'
            /\ \A t \in Threads :
                   th[t].pc \notin LoadPath => th'[t].pc \notin LoadPath
            /\ NoneLoading => _MODEL' = _MODEL]_vars

\* C6's case: two calls raced, both loaded, and the cache holds the object
\* of a successful load.
C6_Witness ==
    /\ Quiescent
    /\ Len(loads) = 2
    /\ loads[1] /\ loads[2]
    /\ _MODEL # 0

\* C10: every get_model call returns the value that ends up cached: once all
\* calls have returned, no call has returned absent while the cache holds a
\* predictor, and none has returned a predictor while the cache is absent.
C10_ReturnsCachedValue ==
    Quiescent => \A i \in 1..Len(retLog) : (retLog[i] = 0) <=> (_MODEL = 0)

(***************************************************************************)
(* POST /api/predict: the fallback (C7) and the 400s (C8), under           *)
(* SpecPredict, where thread 1 sends one request after the other.          *)
(***************************************************************************)
Answered == th[1].pc = "idle" /\ th[1].resp # None
PBody == Get(th[1].body)
PResp == Get(th[1].resp)

\* All 15 required fields are present, each a JSON number.
AllNumeric(body) ==
    /\ body.kind = "object"
    /\ RequiredSet \subseteq DOMAIN body.fields
    /\ \A f \in RequiredSet : body.fields[f].k = "num"

\* h hundredths is max(NumTxn*AvgTxnAmount*(1+WeekendRatio*0.1)*0.3
\* + MaxMonthlySpend*0.2 + TotalWeekendSpending*0.1, 0) rounded to two
\* decimals, the fields given in tenths: h is not negative and as near to
\* the clamped sum (in units of 10^-5) as a hundredth can be.
IsFallback(h, fields) ==
    LET n == fields["NumberOfTransactionsPerMonth"].v
        a == fields["AvgTransactionAmount"].v
        w == fields["WeekendSpendingRatio"].v
        m == fields["MaxMonthlySpend"].v
        t == fields["TotalWeekendSpending"].v
        sum == n * a * (100 + w) * 3 + m * 2000 + t * 1000
        clamped == IF sum > 0 THEN sum ELSE 0
    IN  /\ h >= 0
        /\ 2 * (1000 * h - clamped) <= 1000
        /\ 2 * (clamped - 1000 * h) <= 1000
        /\ (n = 100 /\ a = 1000 /\ w = 2 /\ m = 5000 /\ t = 2000) => h = 42600

\* C7: a body with all 15 required fields as numbers gets a 200 with a
\* number in every state of the predictor; when the predictor is absent, or
\* loaded and raising, the number is the fallback formula of the five
\* fields, clamped at 0 and rounded to two decimals (426.0 for 10, 100, 0.2,
\* 500, 200), whatever the other fields are.
C7_FallbackPrediction ==
    (Answered /\ AllNumeric(PBody)) =>
        /\ PResp.status = 200
        /\ PResp.prediction # None
        /\ Get(PResp.prediction).c = "fin"
        /\ (th[1].model = 0 \/ th[1].raised) =>
               IsFallback(Get(PResp.prediction).v, PBody.fields)

\* C7's case: the predictor is loaded and raises, and the request of the
\* example is answered 426.0.
C7_Witness ==
    /\ Answered
    /\ AllNumeric(PBody)
    /\ th[1].model # 0 /\ th[1].raised
    /\ PResp.status = 200
    /\ PResp.prediction = Some(Fin(42600))

\* The required fields a body supplies: the members of a JSON object.
Supplied(body) ==
    IF body.kind = "object" THEN DOMAIN body.fields \cap RequiredSet ELSE {}

\* A value convertible to a finite number: a number, or a numeric string.
ConvertibleToFinite(value) ==
    \/ value.k \in {"num", "bool"}
    \/ /\ value.k = "str"
       /\ ~IsNone(ParseFloat(value.s))
       /\ Get(ParseFloat(value.s)).c = "fin"

\* C8: POST /api/predict answers 400 exactly when the body is not JSON, or a
\* required field is missing (the error names every missing field and no
\* present one), or a required field's value is not convertible to a finite
\* number, checked in this order; in these cases the predictor is neither
\* loaded nor invoked, and no body is answered 500.
C8_BadRequests ==
    Answered =>
        LET notJson == PBody.kind = "notjson"
            missing == RequiredSet \ Supplied(PBody)
            unconvertible == {f \in Supplied(PBody) :
                                 ~ConvertibleToFinite(PBody.fields[f])}
        IN  /\ PResp.status # 500
            /\ (PResp.status = 400) <=>
                   (notJson \/ missing # {} \/ unconvertible # {})
            /\ notJson => PResp.error = "Request body must be JSON"
            /\ (~notJson /\ PBody.kind # "null" /\ missing # {}) =>
                   /\ PResp.error = "missing fields"
                   /\ {PResp.missing[i] : i \in 1..Len(PResp.missing)} = missing
            /\ (~notJson /\ missing = {} /\ unconvertible # {}) =>
                   PResp.error = "must be numeric" /\ PResp.field \in unconvertible
            /\ PResp.status = 400 => (~th[1].called /\ ~th[1].invoked)

(***************************************************************************)
(* _validate_feature_importance (C9), under SpecFeatures.                  *)
(***************************************************************************)
\* An element the claim accepts: a mapping whose name is a string and whose
\* importance converts to a finite number.
WellFormedItem(item) ==
    /\ item.k = "dict"
    /\ ~IsNone(item.name)
    /\ Get(item.name).k = "str"
    /\ ~IsNone(item.importance)
    /\ ConvertibleToFinite(Get(item.importance))

\* C9: the result is absent if the input is not iterable, is empty, or holds
\* an element that is not a mapping, whose name is not a string or whose
\* importance does not convert to a finite number; otherwise it is the list
\* of one {name, importance} entry per element, in order.  A returned list
\* is not empty and each entry has a non-empty name and a finite importance.
C9_AllOrNothing ==
    fiResult # None =>
        LET raw == Get(fiRaw)
            res == Get(fiResult)
            rejected == \/ ~IsIterable(raw)
                        \/ raw.items = <<>>
                        \/ \E i \in 1..Len(raw.items) :
                               ~WellFormedItem(raw.items[i])
        IN  /\ rejected => res.r = "none"
            /\ ~rejected =>
                   /\ res.r = "list"
                   /\ Len(res.list) = Len(raw.items)
                   /\ \A i \in 1..Len(raw.items) :
                          res.list[i].name = Get(raw.items[i].name).s
            /\ res.r = "list" =>
                   /\ res.list # <<>>
                   /\ \A i \in 1..Len(res.list) :
                          /\ res.list[i].name # <<>>
                          /\ res.list[i].importance.c = "fin"

=============================================================================
